---------------------------- MODULE Spec2Model ----------------------------
(***************************************************************************)
(* A model of the MIDI editor of src/midi_editor.py: the note / track /    *)
(* project data model, the transforms (quantize, transpose), and the       *)
(* import / export codec built on mido; and, in the last sections, of the  *)
(* falling-note game of src/main.py.                                       *)
(*                                                                         *)
(* Python objects are modelled by a heap: `heap` is the sequence of the    *)
(* live MIDINote objects, a note's identity is its index, and track.notes  *)
(* and selected_notes are sequences of such indices.                       *)
(*                                                                         *)
(* Times are exact.  One model time unit is 1 / (1000000 * 480) second,    *)
(* so that one tick of a 480 ticks-per-beat file at a tempo of T           *)
(* microseconds per beat lasts exactly T units.                            *)
(***************************************************************************)
EXTENDS Integers, Sequences, FiniteSets, TLC

VARIABLES
    project,              \* MIDIEditor.project: [title, tempo, tracks]
    heap,                 \* the MIDINote objects, by identity
    current_track_index,  \* MIDIEditor.current_track_index (0-based)
    selected_notes,       \* MIDIEditor.selected_notes (note identities)
    use_gui,              \* MIDIEditor.use_gui
    grid_size,            \* MIDIEditor.grid_size
    output,               \* what the last operation printed or showed
    lastOp,               \* the last operation and its arguments
    mid,                  \* the MIDI file on disk (a mido.MidiFile)
    pc,                   \* position inside import_midi_file
    imp,                  \* the locals of import_midi_file
    saved,                \* the project as it was when `mid` was exported
    second2tick_rounds,   \* whether the installed mido rounds in second2tick
    game                  \* the SynthesiaClone of src/main.py, if one runs

vars == <<project, heap, current_track_index, selected_notes, use_gui,
          grid_size, output, lastOp, mid, pc, imp, saved, second2tick_rounds,
          game>>

editorVars == <<project, heap, current_track_index, selected_notes>>
codecVars == <<mid, pc, imp, saved>>

---------------------------------------------------------------------------
(* Bounds of the model.                                                    *)

MaxNotes == 2          \* MIDINote objects constructed by editing
MaxTracks == 2         \* tracks of a project built by editing
MaxFileMsgs == 3       \* messages of a foreign MIDI file
MaxFileTracks == 2     \* tracks of a foreign MIDI file

(* Program constants.                                                      *)

DefaultTempo == 120            \* MIDIProject.tempo
TicksPerBeat == 480            \* MIDIProject.ticks_per_beat, mido's default
MinPitch == 0
MaxPitch == 127
MinTempo == 60
MaxTempo == 200
MicrosPerMinute == 60000000

None == [none |-> TRUE]

---------------------------------------------------------------------------
(* mido's conversions (mido/midifiles/units.py), which the codec calls.    *)

\* Python's round(a / g) for g > 0: nearest integer, ties to the even one.
PyRound(a, g) ==
    LET q == a \div g
        r == a % g
    IN  IF 2 * r < g THEN q
        ELSE IF 2 * r > g THEN q + 1
        ELSE IF q % 2 = 0 THEN q ELSE q + 1

\* Python's int(a / g) for g > 0: truncation toward zero.
PyInt(a, g) == IF a >= 0 THEN a \div g ELSE -((-a) \div g)

\* mido.bpm2tempo: microseconds per beat, int(round(60e6 / bpm)).
bpm2tempo(bpm) == PyRound(MicrosPerMinute, bpm)

\* Model time units per tick-microsecond for a file of `tpb` ticks per beat.
TickScale(tpb) == TicksPerBeat \div tpb

\* mido.tick2second(tick, ticks_per_beat, tempo), in model time units.
tick2second(tick, tpb, tempo) == tick * tempo * TickScale(tpb)

\* int(mido.second2tick(second, ticks_per_beat, tempo)): mido before 1.3
\* returns the float quotient, which int() truncates; mido 1.3 rounds it.
second2tick(second, tpb, tempo, rounds) ==
    IF rounds THEN PyRound(second, tempo * TickScale(tpb))
    ELSE PyInt(second, tempo * TickScale(tpb))

---------------------------------------------------------------------------
(* Sequences.                                                              *)

Range(s) == {s[i] : i \in 1..Len(s)}

Front(s) == SubSeq(s, 1, Len(s) - 1)

RemoveAt(s, i) == SubSeq(s, 1, i - 1) \o SubSeq(s, i + 1, Len(s))

\* The index of the first occurrence of x in s (list.index).
IndexOf(s, x) == CHOOSE i \in 1..Len(s) : s[i] = x /\ \A j \in 1..(i - 1) : s[j] # x

\* One step of a stable sort: x goes after every element whose key is <= its
\* own.  `s` is a sequence of [key, val] pairs already in key order.
InsertByKey(s, x) ==
    LET n == Cardinality({i \in 1..Len(s) : s[i].key <= x.key})
    IN  SubSeq(s, 1, n) \o <<x>> \o SubSeq(s, n + 1, Len(s))

RECURSIVE StableSort(_)
\* list.sort(key=...) / sorted(..., key=...): stable, ascending by key.
StableSort(s) ==
    IF s = <<>> THEN <<>> ELSE InsertByKey(StableSort(Front(s)), s[Len(s)])

Vals(s) == [i \in 1..Len(s) |-> s[i].val]

RECURSIVE Sum(_)
Sum(s) == IF s = <<>> THEN 0 ELSE s[1] + Sum(Tail(s))

---------------------------------------------------------------------------
(* The data model: MIDINote, MIDITrack, MIDIProject.                       *)

\* MIDINote.__init__
MIDINote(note, velocity, start_time, duration, channel) ==
    [note |-> note, velocity |-> velocity, start_time |-> start_time,
     duration |-> duration, channel |-> channel, selected |-> FALSE,
     end_time |-> start_time + duration]

\* MIDITrack.__init__
MIDITrack(name) == [name |-> name, notes |-> <<>>]

\* MIDIProject.__init__
MIDIProject(title) == [title |-> title, tracks |-> <<>>, tempo |-> DefaultTempo]

\* MIDITrack.sort_notes: self.notes.sort(key=lambda n: n.start_time)
sort_notes(notes, h) ==
    Vals(StableSort([i \in 1..Len(notes) |->
                        [key |-> h[notes[i]].start_time, val |-> notes[i]]]))

\* A slip add_note could make: the append without the sort.
add_note_unsorted(track, id, h) == [track EXCEPT !.notes = Append(@, id)]

\* MIDITrack.add_note
add_note(track, id, h) == [track EXCEPT !.notes = sort_notes(Append(@, id), h)]

\* MIDITrack.remove_note: removes the first occurrence, if any.
remove_note(track, id) ==
    IF id \in Range(track.notes)
    THEN [track EXCEPT !.notes = RemoveAt(@, IndexOf(@, id))]
    ELSE track

\* A slip the quantize formula could make: the grid index, not scaled back.
QuantizeNoteUnscaled(n, grid) ==
    LET st == PyRound(n.start_time, grid)
    IN  [n EXCEPT !.start_time = st, !.end_time = st + n.duration]

\* A slip the loop could make: start_time moved, end_time left stale.
QuantizeNoteStaleEnd(n, grid) ==
    [n EXCEPT !.start_time = PyRound(n.start_time, grid) * grid]

\* The body of the loops of quantize_notes and quantize_selected.
QuantizeNote(n, grid) ==
    LET st == PyRound(n.start_time, grid) * grid
    IN  [n EXCEPT !.start_time = st, !.end_time = st + n.duration]

\* MIDITrack.quantize_notes: the heap after it (the list is not re-sorted).
quantize_notes(track, grid, h) ==
    [id \in DOMAIN h |->
        IF id \in Range(track.notes) THEN QuantizeNote(h[id], grid) ELSE h[id]]

\* A slip the range guard could make: an upper limit that excludes 127.
TransposeNoteStrict(n, semitones) ==
    LET new_note == n.note + semitones
    IN  IF MinPitch <= new_note /\ new_note < MaxPitch
        THEN [n EXCEPT !.note = new_note] ELSE n

\* The body of the loops of cli_transpose_track and transpose_selected.
TransposeNote(n, semitones) ==
    LET new_note == n.note + semitones
    IN  IF MinPitch <= new_note /\ new_note <= MaxPitch
        THEN [n EXCEPT !.note = new_note] ELSE n

\* The `transposed` counter of cli_transpose_track.
TransposedCount(ids, semitones, h) ==
    Cardinality({i \in 1..Len(ids) :
        MinPitch <= h[ids[i]].note + semitones /\ h[ids[i]].note + semitones <= MaxPitch})

\* The heap after the transpose loop has run over the notes `ids`.
TransposeAll(ids, semitones, h) ==
    [id \in DOMAIN h |->
        IF id \in Range(ids) THEN TransposeNote(h[id], semitones) ELSE h[id]]

\* A slip get_duration could make: the latest start instead of the latest end.
track_get_duration_start(track, h) ==
    IF track.notes = <<>> THEN 0
    ELSE LET starts == {h[id].start_time : id \in Range(track.notes)}
         IN  CHOOSE m \in starts : \A e \in starts : e <= m

\* MIDITrack.get_duration
track_get_duration(track, h) ==
    IF track.notes = <<>> THEN 0
    ELSE LET ends == {h[id].end_time : id \in Range(track.notes)}
         IN  CHOOSE m \in ends : \A e \in ends : e <= m

(* Python frees a note once nothing refers to it, and a note's identity   *)
(* cannot be observed.  The live notes are kept in the order in which the  *)
(* tracks and then the selection refer to them, and numbered from 1.       *)
RECURSIVE Flatten(_)
Flatten(tracks) ==
    IF tracks = <<>> THEN <<>> ELSE tracks[1].notes \o Flatten(Tail(tracks))

RECURSIVE Others(_, _)
\* The notes of `sel` that are not in `seen`, each once.
Others(sel, seen) ==
    IF sel = <<>> THEN <<>>
    ELSE IF sel[1] \in seen THEN Others(Tail(sel), seen)
    ELSE <<sel[1]>> \o Others(Tail(sel), seen \cup {sel[1]})

LiveSeq(tracks, sel) == Flatten(tracks) \o Others(sel, Range(Flatten(tracks)))

CollectHeap(h, live) == [k \in 1..Len(live) |-> h[live[k]]]

CollectTracks(tracks, live) ==
    [t \in 1..Len(tracks) |->
        [tracks[t] EXCEPT !.notes = [i \in 1..Len(@) |-> IndexOf(live, @[i])]]]

CollectSel(sel, live) == [i \in 1..Len(sel) |-> IndexOf(live, sel[i])]

---------------------------------------------------------------------------
(* The editor: MIDIEditor.__init__ and the operations of its two front     *)
(* ends.  run() starts either the GUI or the command-line loop, so the     *)
(* cli_* operations run only when use_gui is false and the GUI callbacks   *)
(* only when it is true.                                                   *)

Second == 1000000 * TicksPerBeat     \* one second, in model time units

TrackName(n) == <<"Track", n>>       \* f"Track {n}"

Printed(text, fields) == [text |-> text, fields |-> fields]

Nothing == Printed("", <<>>)

Op(name, arg) == [op |-> name, arg |-> arg]

Track == project.tracks[current_track_index + 1]

\* self.project.tracks[self.current_track_index] raises IndexError
IndexError == current_track_index >= Len(project.tracks)

\* MIDIEditor.__init__
EditorInit ==
    /\ project = [MIDIProject("Untitled Project") EXCEPT
                     !.tracks = <<MIDITrack(TrackName(1))>>]
    /\ heap = <<>>
    /\ current_track_index = 0
    /\ selected_notes = <<>>
    /\ grid_size = Second \div 4
    /\ output = Nothing
    /\ lastOp = Op("__init__", 0)

\* The state after an operation that dropped references to notes.
Collected(tracks, h, sel) ==
    LET live == LiveSeq(tracks, sel)
    IN  /\ project' = [project EXCEPT !.tracks = CollectTracks(tracks, live)]
        /\ heap' = CollectHeap(h, live)
        /\ selected_notes' = CollectSel(sel, live)

\* An operation that only prints.
Only(name, arg, text) ==
    /\ lastOp' = Op(name, 0)
    /\ output' = Printed(text, <<>>)
    /\ UNCHANGED <<project, heap, current_track_index, selected_notes, grid_size>>

cli_add_track(name) ==
    /\ ~use_gui /\ pc = "idle"
    /\ Len(project.tracks) < MaxTracks
    /\ LET n == IF name = "" THEN TrackName(Len(project.tracks) + 1) ELSE <<name, 0>>
       IN  project' = [project EXCEPT !.tracks = Append(@, MIDITrack(n))]
    /\ lastOp' = Op("cli_add_track", 0)
    /\ output' = Printed("Added track", <<>>)
    /\ UNCHANGED <<heap, current_track_index, selected_notes, grid_size>>
    /\ UNCHANGED <<use_gui, second2tick_rounds, game, codecVars>>

\* `number` is what the user types; the index is number - 1.
cli_select_track(number) ==
    /\ ~use_gui /\ pc = "idle"
    /\ LET index == number - 1
       IN  IF 0 <= index /\ index < Len(project.tracks)
           THEN /\ current_track_index' = index
                /\ output' = Printed("Selected", <<>>)
           ELSE /\ current_track_index' = current_track_index
                /\ output' = Printed("Invalid track number", <<>>)
    /\ lastOp' = Op("cli_select_track", 0)
    /\ UNCHANGED <<project, heap, selected_notes, grid_size>>
    /\ UNCHANGED <<use_gui, second2tick_rounds, game, codecVars>>

cli_add_note(note_num, start_time, duration, velocity) ==
    /\ ~use_gui /\ pc = "idle"
    /\ Len(heap) < MaxNotes
    /\ IF project.tracks = <<>>
       THEN Only("cli_add_note", note_num, "No tracks available")
       ELSE IF IndexError
       THEN Only("cli_add_note", note_num, "Error")
       ELSE IF ~(MinPitch <= note_num /\ note_num <= MaxPitch)
       THEN Only("cli_add_note", note_num, "Note must be between 0 and 127")
       ELSE LET h == Append(heap, MIDINote(note_num, velocity, start_time, duration, 0))
            IN  /\ Collected([project.tracks EXCEPT ![current_track_index + 1] =
                                  add_note(@, Len(h), h)], h, selected_notes)
                /\ lastOp' = Op("cli_add_note", 0)
                /\ output' = Printed("Added note", <<>>)
                /\ UNCHANGED <<current_track_index, grid_size>>
    /\ UNCHANGED <<use_gui, second2tick_rounds, game, codecVars>>

cli_delete_note(number) ==
    /\ ~use_gui /\ pc = "idle"
    /\ IF project.tracks = <<>>
       THEN Only("cli_delete_note", number, "No tracks available")
       ELSE IF IndexError
       THEN Only("cli_delete_note", number, "Error")
       ELSE IF Track.notes = <<>>
       THEN Only("cli_delete_note", number, "No notes in current track")
       ELSE IF ~(0 <= number - 1 /\ number - 1 < Len(Track.notes))
       THEN Only("cli_delete_note", number, "Invalid note number")
       ELSE /\ Collected([project.tracks EXCEPT ![current_track_index + 1].notes =
                             RemoveAt(@, number)], heap, selected_notes)
            /\ lastOp' = Op("cli_delete_note", 0)
            /\ output' = Printed("Deleted", <<>>)
            /\ UNCHANGED <<current_track_index, grid_size>>
    /\ UNCHANGED <<use_gui, second2tick_rounds, game, codecVars>>

cli_quantize_track(grid) ==
    /\ ~use_gui /\ pc = "idle"
    /\ IF project.tracks = <<>>
       THEN Only("cli_quantize_track", grid, "No tracks available")
       ELSE IF IndexError
       THEN Only("cli_quantize_track", grid, "Error")
       ELSE IF Track.notes = <<>>
       THEN Only("cli_quantize_track", grid, "No notes to quantize")
       ELSE /\ heap' = quantize_notes(Track, grid, heap)
            /\ lastOp' = Op("cli_quantize_track", grid)
            /\ output' = Printed("Quantized", [notes |-> Len(Track.notes)])
            /\ UNCHANGED <<project, current_track_index, selected_notes, grid_size>>
    /\ UNCHANGED <<use_gui, second2tick_rounds, game, codecVars>>

cli_transpose_track(semitones) ==
    /\ ~use_gui /\ pc = "idle"
    /\ IF project.tracks = <<>>
       THEN Only("cli_transpose_track", semitones, "No tracks available")
       ELSE IF IndexError
       THEN Only("cli_transpose_track", semitones, "Error")
       ELSE IF Track.notes = <<>>
       THEN Only("cli_transpose_track", semitones, "No notes to transpose")
       ELSE /\ heap' = TransposeAll(Track.notes, semitones, heap)
            /\ lastOp' = Op("cli_transpose_track", semitones)
            /\ output' = Printed("Transposed",
                   [transposed |-> TransposedCount(Track.notes, semitones, heap),
                    semitones |-> semitones])
            /\ UNCHANGED <<project, current_track_index, selected_notes, grid_size>>
    /\ UNCHANGED <<use_gui, second2tick_rounds, game, codecVars>>

---------------------------------------------------------------------------
(* Loading a JSON project (load_json_project).  `data` is the parsed file: *)
(* [old, title, tempo, tracks], each track [name, notes], each note a      *)
(* dictionary with the keys of MIDINote.to_dict.                           *)

\* MIDINote.from_dict
from_dict(d) == MIDINote(d.note, d.velocity, d.start_time, d.duration, d.channel)

RECURSIVE LoadNotes(_, _, _)
\* for note_data in ...: track.add_note(MIDINote.from_dict(note_data))
LoadNotes(track, ds, h) ==
    IF ds = <<>> THEN [track |-> track, heap |-> h]
    ELSE LET h2 == Append(h, from_dict(ds[1]))
         IN  LoadNotes(add_note(track, Len(h2), h2), Tail(ds), h2)

RECURSIVE LoadTracks(_, _, _)
\* for track_data in data.get('tracks', []): ... self.project.add_track(track)
LoadTracks(tracks, tds, h) ==
    IF tds = <<>> THEN [tracks |-> tracks, heap |-> h]
    ELSE LET r == LoadNotes(MIDITrack(tds[1].name), tds[1].notes, h)
         IN  LoadTracks(Append(tracks, r.track), Tail(tds), r.heap)

\* MIDIEditor.load_json_project: the editor after it.  The notes of the
\* project it replaces live on only where selected_notes still refers to them.
load_json_project(data) ==
    LET r    == IF data.old
                THEN LoadTracks(<<>>, <<[name |-> <<"Main Track", 0>>,
                                         notes |-> data.tracks[1].notes]>>, heap)
                ELSE LoadTracks(<<>>, data.tracks, heap)
        live == LiveSeq(r.tracks, selected_notes)
    IN  /\ project' = [title |-> data.title,
                       tracks |-> CollectTracks(r.tracks, live),
                       tempo |-> IF data.old THEN DefaultTempo ELSE data.tempo]
        /\ heap' = CollectHeap(r.heap, live)
        /\ selected_notes' = CollectSel(selected_notes, live)
        /\ UNCHANGED <<current_track_index, grid_size>>

\* MIDIEditor.cli_load_project with the path of a JSON file
cli_load_project_json(data) ==
    /\ ~use_gui /\ pc = "idle"
    /\ load_json_project(data)
    /\ lastOp' = Op("cli_load_project", 0)
    /\ output' = Printed("Loaded", <<>>)
    /\ UNCHANGED <<use_gui, second2tick_rounds, game, codecVars>>

---------------------------------------------------------------------------
(* The GUI callbacks.                                                      *)

\* MIDIEditor.open_project with the path of a JSON file
open_project_json(data) ==
    /\ use_gui /\ pc = "idle"
    /\ load_json_project(data)
    /\ lastOp' = Op("open_project", 0)
    /\ output' = Printed("Opened", <<>>)
    /\ UNCHANGED <<use_gui, second2tick_rounds, game, codecVars>>

\* MIDIEditor.on_track_select: the listbox offers the rows of the track list.
on_track_select(row) ==
    /\ use_gui /\ pc = "idle"
    /\ row \in 0..(Len(project.tracks) - 1)
    /\ current_track_index' = row
    /\ lastOp' = Op("on_track_select", 0)
    /\ output' = Nothing
    /\ UNCHANGED <<project, heap, selected_notes, grid_size>>
    /\ UNCHANGED <<use_gui, second2tick_rounds, game, codecVars>>

\* MIDIEditor.update_grid_size
update_grid_size(grid) ==
    /\ use_gui /\ pc = "idle"
    /\ grid_size' = grid
    /\ lastOp' = Op("update_grid_size", 0)
    /\ output' = Nothing
    /\ UNCHANGED <<project, heap, current_track_index, selected_notes>>
    /\ UNCHANGED <<use_gui, second2tick_rounds, game, codecVars>>

\* MIDIEditor.select_all_notes
select_all_notes ==
    /\ use_gui /\ pc = "idle"
    /\ lastOp' = Op("select_all_notes", 0)
    /\ output' = Nothing
    /\ IF project.tracks # <<>> /\ current_track_index < Len(project.tracks)
       THEN Collected(project.tracks,
                      [id \in DOMAIN heap |->
                          IF id \in Range(Track.notes)
                          THEN [heap[id] EXCEPT !.selected = TRUE] ELSE heap[id]],
                      Track.notes)
       ELSE UNCHANGED <<project, heap, selected_notes>>
    /\ UNCHANGED <<current_track_index, grid_size>>
    /\ UNCHANGED <<use_gui, second2tick_rounds, game, codecVars>>

RECURSIVE RemoveAll(_, _)
\* for note in self.selected_notes: if note in track.notes: track.remove_note(note)
RemoveAll(track, ids) ==
    IF ids = <<>> THEN track ELSE RemoveAll(remove_note(track, ids[1]), Tail(ids))

\* MIDIEditor.delete_selected_notes
delete_selected_notes ==
    /\ use_gui /\ pc = "idle"
    /\ lastOp' = Op("delete_selected_notes", 0)
    /\ output' = Nothing
    /\ IF project.tracks # <<>> /\ current_track_index < Len(project.tracks)
       THEN Collected([project.tracks EXCEPT ![current_track_index + 1] =
                          RemoveAll(@, selected_notes)], heap, <<>>)
       ELSE UNCHANGED <<project, heap, selected_notes>>
    /\ UNCHANGED <<current_track_index, grid_size>>
    /\ UNCHANGED <<use_gui, second2tick_rounds, game, codecVars>>

\* MIDIEditor.quantize_selected
quantize_selected ==
    /\ use_gui /\ pc = "idle"
    /\ heap' = [id \in DOMAIN heap |->
                   IF id \in Range(selected_notes)
                   THEN QuantizeNote(heap[id], grid_size) ELSE heap[id]]
    /\ lastOp' = Op("quantize_selected", grid_size)
    /\ output' = Nothing
    /\ UNCHANGED <<project, current_track_index, selected_notes, grid_size>>
    /\ UNCHANGED <<use_gui, second2tick_rounds, game, codecVars>>

\* MIDIEditor.transpose_selected; the dialog is answered with `semitones`.
transpose_selected(semitones) ==
    /\ use_gui /\ pc = "idle"
    /\ heap' = TransposeAll(selected_notes, semitones, heap)
    /\ lastOp' = Op("transpose_selected", semitones)
    /\ output' = Nothing
    /\ UNCHANGED <<project, current_track_index, selected_notes, grid_size>>
    /\ UNCHANGED <<use_gui, second2tick_rounds, game, codecVars>>

---------------------------------------------------------------------------
(* The editing specification: the editor under its editing operations,     *)
(* with inputs drawn from small sets.                                      *)

EditPitches == {127}
EditStarts == {Second \div 8, Second \div 4}
EditDurations == {Second \div 8}
EditVelocities == {80}
Semitones == {127, -127}
CliGrids == {Second \div 4}
\* two of the entries of grid_map in update_grid_size
GuiGrids == {Second, Second \div 4}

JsonNote(st) ==
    [note |-> 127, velocity |-> 80, start_time |-> st,
     duration |-> Second \div 8, channel |-> 0]

JsonTrack(n, notes) == [name |-> TrackName(n), notes |-> notes]

JsonFile(tracks) ==
    [old |-> FALSE, title |-> "Untitled Project", tempo |-> DefaultTempo,
     tracks |-> tracks]

\* JSON projects: no track, one track, two tracks; notes out of time order.
JsonFiles ==
    {JsonFile(<<>>),
     JsonFile(<<JsonTrack(1, <<JsonNote(Second \div 4), JsonNote(Second \div 8)>>)>>),
     JsonFile(<<JsonTrack(1, <<JsonNote(Second \div 8)>>),
                JsonTrack(2, <<JsonNote(Second \div 4), JsonNote(Second \div 8)>>)>>)}

EditInit ==
    /\ EditorInit
    /\ game = None
    /\ use_gui \in BOOLEAN
    /\ second2tick_rounds = TRUE
    /\ mid = None /\ pc = "idle" /\ imp = None /\ saved = None

EditNext ==
    \/ cli_add_track("")
    \/ \E number \in 0..(MaxTracks + 1) : cli_select_track(number)
    \/ \E n \in EditPitches \cup {MaxPitch + 1}, st \in EditStarts,
          d \in EditDurations, v \in EditVelocities : cli_add_note(n, st, d, v)
    \/ \E number \in 0..MaxNotes : cli_delete_note(number)
    \/ \E grid \in CliGrids : cli_quantize_track(grid)
    \/ \E semitones \in Semitones : cli_transpose_track(semitones)
    \/ \E data \in JsonFiles : cli_load_project_json(data)
    \/ \E data \in JsonFiles : open_project_json(data)
    \/ \E row \in 0..(MaxTracks - 1) : on_track_select(row)
    \/ \E grid \in GuiGrids : update_grid_size(grid)
    \/ select_all_notes
    \/ delete_selected_notes
    \/ quantize_selected
    \/ \E semitones \in Semitones : transpose_selected(semitones)

SpecEdit == EditInit /\ [][EditNext]_vars

---------------------------------------------------------------------------
(* Properties of the editing operations.                                   *)

Sorted(notes, h) ==
    \A i, j \in 1..Len(notes) : i < j => h[notes[i]].start_time <= h[notes[j]].start_time

\* C1: after every mutation (add_note, remove_note, quantize_notes) the notes
\* of every track are in non-decreasing order of start_time.
C1_NotesSorted ==
    \A t \in 1..Len(project.tracks) : Sorted(project.tracks[t].notes, heap)

\* C1's case: quantize_notes has run on a track built by add_note that holds
\* two notes with different start times.
C1_Witness ==
    /\ lastOp.op = "cli_quantize_track" /\ output.text = "Quantized"
    /\ \E i, j \in 1..Len(Track.notes) :
          heap[Track.notes[i]].start_time < heap[Track.notes[j]].start_time

\* C6: quantizing a second time with the same grid changes no note: every
\* start_time, end_time and duration stays what the first application left
\* (the order of track.notes is not touched by either application).
C6_QuantizeIdempotent ==
    /\ (lastOp.op = "cli_quantize_track" /\ output.text = "Quantized")
          => quantize_notes(Track, lastOp.arg, heap) = heap
    /\ lastOp.op = "quantize_selected"
          => \A id \in Range(selected_notes) : QuantizeNote(heap[id], lastOp.arg) = heap[id]

\* C6's case: a quantize has moved a note onto a grid line other than 0.
C6_Witness ==
    /\ lastOp.op = "cli_quantize_track" /\ output.text = "Quantized"
    /\ \E i \in 1..Len(Track.notes) : heap[Track.notes[i]].start_time = lastOp.arg
    /\ \E i \in 1..Len(Track.notes) : heap[Track.notes[i]].start_time = 0

InRange(pitch) == MinPitch <= pitch /\ pitch <= MaxPitch

\* The notes a transpose step runs over, read in the state before the step.
TransposeSelection ==
    IF lastOp'.op = "transpose_selected" THEN selected_notes
    ELSE IF output'.text = "Transposed" THEN Track.notes ELSE <<>>

TransposeStep == lastOp'.op \in {"cli_transpose_track", "transpose_selected"}

\* C7: a transpose by s sets the pitch of a note of the selection to pitch+s
\* exactly when 0 <= pitch+s <= 127 and leaves it alone otherwise; no note is
\* added or removed, no other field and no other note changes, and pitches
\* that were in [0,127] stay in [0,127].
C7_TransposeGuard ==
    [][TransposeStep =>
        LET s == lastOp'.arg
            sel == Range(TransposeSelection)
        IN  /\ project' = project /\ selected_notes' = selected_notes
            /\ DOMAIN heap' = DOMAIN heap
            /\ \A id \in DOMAIN heap :
                  /\ id \notin sel => heap'[id] = heap[id]
                  /\ id \in sel =>
                        /\ heap'[id].note = IF InRange(heap[id].note + s)
                                            THEN heap[id].note + s ELSE heap[id].note
                        /\ [heap'[id] EXCEPT !.note = heap[id].note] = heap[id]
                        /\ InRange(heap[id].note) => InRange(heap'[id].note)]_vars

\* C7's case: a transpose of two notes has shifted one and skipped the other.
C7_Witness ==
    /\ lastOp.op = "cli_transpose_track" /\ output.text = "Transposed"
    /\ Len(Track.notes) = 2
    /\ output.fields.transposed = 1

\* C8: a transpose that skips notes reports how many it skipped, and the
\* transposed and skipped counts add up to the size of the selection.
C8_SkipsReported ==
    [][TransposeStep =>
        LET s == lastOp'.arg
            skipped == Cardinality({i \in 1..Len(TransposeSelection) :
                          ~InRange(heap[TransposeSelection[i]].note + s)})
        IN  skipped > 0 =>
            /\ {"transposed", "skipped"} \subseteq DOMAIN output'.fields
            /\ output'.fields.skipped = skipped
            /\ output'.fields.transposed + output'.fields.skipped
                  = Len(TransposeSelection)]_vars

---------------------------------------------------------------------------
(* MIDI files as mido presents them: [ticks_per_beat, tracks], a track a   *)
(* sequence of messages, each with its delta time in ticks.                *)

NoName == <<"", 0>>

\* mido.Message(type, channel=, note=, velocity=, time=)
Message(type, channel, note, velocity, time) ==
    [type |-> type, channel |-> channel, note |-> note, velocity |-> velocity,
     time |-> time, tempo |-> 0, name |-> NoName]

\* mido.MetaMessage('track_name', name=)
MetaTrackName(name) ==
    [type |-> "track_name", channel |-> 0, note |-> 0, velocity |-> 0,
     time |-> 0, tempo |-> 0, name |-> name]

\* mido.MetaMessage('set_tempo', tempo=, time=)
MetaSetTempo(tempo, time) ==
    [type |-> "set_tempo", channel |-> 0, note |-> 0, velocity |-> 0,
     time |-> time, tempo |-> tempo, name |-> NoName]

\* the end_of_track that mido's save() puts at the end of every track
EndOfTrack ==
    [type |-> "end_of_track", channel |-> 0, note |-> 0, velocity |-> 0,
     time |-> 0, tempo |-> 0, name |-> NoName]

---------------------------------------------------------------------------
(* export_midi_file                                                        *)

\* The two events of a note (events.append(...), twice).  `src` is the note
\* the event comes from; the code's tuples do not carry it and nothing but
\* the properties below reads it.
NoteEvents(id, h) ==
    <<[time |-> h[id].start_time, type |-> "note_on", note |-> h[id].note,
       velocity |-> h[id].velocity, channel |-> h[id].channel, src |-> id],
      [time |-> h[id].start_time + h[id].duration, type |-> "note_off",
       note |-> h[id].note, velocity |-> 0, channel |-> h[id].channel, src |-> id]>>

RECURSIVE AllNoteEvents(_, _)
AllNoteEvents(ids, h) ==
    IF ids = <<>> THEN <<>> ELSE NoteEvents(ids[1], h) \o AllNoteEvents(Tail(ids), h)

\* sorted_notes, the events of every note, events.sort(key=lambda x: x[0])
ExportEvents(track, h) ==
    LET evs == AllNoteEvents(sort_notes(track.notes, h), h)
    IN  Vals(StableSort([i \in 1..Len(evs) |-> [key |-> evs[i].time, val |-> evs[i]]]))

RECURSIVE EventMessages(_, _, _, _)
\* The loop that turns events into messages with delta times.
EventMessages(evs, current_time, tempo, rounds) ==
    IF evs = <<>> THEN <<>>
    ELSE LET ev == evs[1]
             delta_ticks == second2tick(ev.time - current_time, TicksPerBeat,
                                        bpm2tempo(tempo), rounds)
         IN  <<Message(ev.type, ev.channel, ev.note, ev.velocity, delta_ticks)>>
             \o EventMessages(Tail(evs), ev.time, tempo, rounds)

\* One pass of the loop over self.project.tracks.
export_track(track, h, tempo, rounds) ==
    <<MetaTrackName(track.name)>>
    \o EventMessages(ExportEvents(track, h), 0, tempo, rounds)
    \o <<EndOfTrack>>

\* A slip the exporter could make: no file track for a track without notes.
export_midi_file_skipping_empty(proj, h, rounds) ==
    LET full == SelectSeq(proj.tracks, LAMBDA tr : tr.notes # <<>>)
    IN  [ticks_per_beat |-> TicksPerBeat,
         tracks |-> [t \in 1..Len(full) |->
                        export_track(full[t], h, proj.tempo, rounds)]]

\* MIDIEditor.export_midi_file: the file that mid.save writes.
export_midi_file(proj, h, rounds) ==
    [ticks_per_beat |-> TicksPerBeat,
     tracks |-> [t \in 1..Len(proj.tracks) |->
                    export_track(proj.tracks[t], h, proj.tempo, rounds)]]

\* The project by value: its tempo and the fields of the notes of its tracks.
Snapshot(proj, h) ==
    [tempo |-> proj.tempo,
     tracks |-> [t \in 1..Len(proj.tracks) |->
                    [i \in 1..Len(proj.tracks[t].notes) |-> h[proj.tracks[t].notes[i]]]]]

\* mido's check of a data byte.
DataByte(x) == 0 <= x /\ x <= 127

\* A slip the message checks could make: only the first track's notes checked.
MessageRaisesFirstTrack(proj, h) ==
    /\ proj.tracks # <<>>
    /\ \E id \in Range(proj.tracks[1].notes) :
          ~DataByte(h[id].note) \/ ~DataByte(h[id].velocity) \/ h[id].channel \notin 0..15

\* mido.Message(...) raises ValueError for some note of the project: a note,
\* velocity or channel out of range.
MessageRaises(proj, h) ==
    \E id \in Range(Flatten(proj.tracks)) :
        ~DataByte(h[id].note) \/ ~DataByte(h[id].velocity) \/ h[id].channel \notin 0..15

\* A slip the exporter could make: empty tracks removed from the project
\* instead of being skipped.
export_midi_dropping_empty ==
    /\ pc = "idle"
    /\ project' = [project EXCEPT !.tracks = SelectSeq(@, LAMBDA tr : tr.notes # <<>>)]
    /\ IF MessageRaises(project, heap)
       THEN /\ UNCHANGED <<mid, saved>>
            /\ output' = Printed("Error exporting MIDI", <<>>)
       ELSE /\ mid' = export_midi_file(project', heap, second2tick_rounds)
            /\ saved' = Snapshot(project', heap)
            /\ output' = Printed("Exported", <<>>)
    /\ lastOp' = Op("export_midi_file", 0)
    /\ UNCHANGED <<heap, current_track_index, selected_notes, grid_size, use_gui,
                   second2tick_rounds, game, pc, imp>>

\* cli_export_midi / export_midi: export the project to a file, or report the
\* error that export_midi_file raised before mid.save.
export_midi ==
    /\ pc = "idle"
    /\ IF MessageRaises(project, heap)
       THEN /\ UNCHANGED <<mid, saved>>
            /\ output' = Printed("Error exporting MIDI", <<>>)
       ELSE /\ mid' = export_midi_file(project, heap, second2tick_rounds)
            /\ saved' = Snapshot(project, heap)
            /\ output' = Printed("Exported", <<>>)
    /\ lastOp' = Op("export_midi_file", 0)
    /\ UNCHANGED <<editorVars, grid_size, use_gui, second2tick_rounds, game, pc, imp>>

---------------------------------------------------------------------------
(* import_midi_file, one message at a time.                                *)

RECURSIVE ToAbsTime(_, _)
\* mido's _to_abstime: the messages of a track keyed by absolute tick.
ToAbsTime(track, now) ==
    IF track = <<>> THEN <<>>
    ELSE <<[key |-> now + track[1].time, val |-> track[1]]>>
         \o ToAbsTime(Tail(track), now + track[1].time)

RECURSIVE AllAbsTime(_)
AllAbsTime(tracks) ==
    IF tracks = <<>> THEN <<>>
    ELSE ToAbsTime(tracks[1], 0) \o AllAbsTime(Tail(tracks))

\* mido's merge_tracks, the order in which `for msg in mid` yields messages:
\* all tracks together, sorted by absolute tick, ties in track order.
merge_tracks(tracks) == Vals(StableSort(AllAbsTime(tracks)))

\* A slip the tempo loop could make: no break, so the last tempo event wins.
LastTempo(msgs) ==
    LET ts == SelectSeq(msgs, LAMBDA m : m.type = "set_tempo")
    IN  IF ts = <<>> THEN DefaultTempo
        ELSE PyInt(MicrosPerMinute, ts[Len(ts)].tempo)

\* The loop that finds the file's tempo: the first set_tempo, then break.
FirstTempo(msgs) ==
    LET ts == SelectSeq(msgs, LAMBDA m : m.type = "set_tempo")
    IN  IF ts = <<>> THEN DefaultTempo
        ELSE PyInt(MicrosPerMinute, ts[1].tempo)

NoPending == [x \in {} |-> 0]

Put(f, k, v) == [x \in DOMAIN f \cup {k} |-> IF x = k THEN v ELSE f[x]]

Pop(f, k) == [x \in DOMAIN f \ {k} |-> f[x]]

IsNoteOn(msg) == msg.type = "note_on" /\ msg.velocity > 0

IsNoteOff(msg) ==
    msg.type = "note_off" \/ (msg.type = "note_on" /\ msg.velocity = 0)

\* A slip the note-off branch could make: pop with a default instead of the
\* membership test, so an unmatched note-off completes a note.
OnMessagePopDefault(active_notes, msg, current_time) ==
    IF IsNoteOn(msg)
    THEN [active_notes |-> Put(active_notes, msg.note,
                               [start_time |-> current_time, velocity |-> msg.velocity]),
          notes |-> <<>>]
    ELSE IF IsNoteOff(msg)
    THEN LET e == IF msg.note \in DOMAIN active_notes THEN active_notes[msg.note]
                  ELSE [start_time |-> current_time, velocity |-> 64]
         IN  [active_notes |-> Pop(active_notes, msg.note),
              notes |-> <<MIDINote(msg.note, e.velocity, e.start_time,
                                   current_time - e.start_time, msg.channel)>>]
    ELSE [active_notes |-> active_notes, notes |-> <<>>]

\* A slip the note-off branch could make: the entry is read but not popped.
OnMessageNoPop(active_notes, msg, current_time) ==
    IF IsNoteOn(msg)
    THEN [active_notes |-> Put(active_notes, msg.note,
                               [start_time |-> current_time, velocity |-> msg.velocity]),
          notes |-> <<>>]
    ELSE IF IsNoteOff(msg) /\ msg.note \in DOMAIN active_notes
    THEN LET e == active_notes[msg.note]
         IN  [active_notes |-> active_notes,
              notes |-> <<MIDINote(msg.note, e.velocity, e.start_time,
                                   current_time - e.start_time, msg.channel)>>]
    ELSE [active_notes |-> active_notes, notes |-> <<>>]

\* A slip the note-off branch could make: the completed note takes the
\* velocity of the closing message instead of the stored one.
OnMessageOffVelocity(active_notes, msg, current_time) ==
    IF IsNoteOn(msg)
    THEN [active_notes |-> Put(active_notes, msg.note,
                               [start_time |-> current_time, velocity |-> msg.velocity]),
          notes |-> <<>>]
    ELSE IF IsNoteOff(msg) /\ msg.note \in DOMAIN active_notes
    THEN LET e == active_notes[msg.note]
         IN  [active_notes |-> Pop(active_notes, msg.note),
              notes |-> <<MIDINote(msg.note, msg.velocity, e.start_time,
                                   current_time - e.start_time, msg.channel)>>]
    ELSE [active_notes |-> active_notes, notes |-> <<>>]

\* The body of `for msg in midi_track` after the clock has advanced: the new
\* active_notes and the notes handed to track.add_note.
OnMessage(active_notes, msg, current_time) ==
    IF IsNoteOn(msg)
    THEN [active_notes |-> Put(active_notes, msg.note,
                               [start_time |-> current_time, velocity |-> msg.velocity]),
          notes |-> <<>>]
    ELSE IF IsNoteOff(msg) /\ msg.note \in DOMAIN active_notes
    THEN LET e == active_notes[msg.note]
         IN  [active_notes |-> Pop(active_notes, msg.note),
              notes |-> <<MIDINote(msg.note, e.velocity, e.start_time,
                                   current_time - e.start_time, msg.channel)>>]
    ELSE [active_notes |-> active_notes, notes |-> <<>>]

\* A slip the track loop could make: the clock and the pending map set up
\* once, before the loop, and carried from one track into the next.
TrackLocalsCarried(i) ==
    IF i = 1
    THEN [i |-> i, k |-> 1, track |-> MIDITrack(TrackName(i)),
          current_time |-> 0, active_notes |-> NoPending]
    ELSE [i |-> i, k |-> 1, track |-> MIDITrack(TrackName(i)),
          current_time |-> imp.current_time, active_notes |-> imp.active_notes]

\* The locals at the top of the loop over mid.tracks, for track number i.
TrackLocals(i) ==
    [i |-> i, k |-> 1, track |-> MIDITrack(TrackName(i)),
     current_time |-> 0, active_notes |-> NoPending]

ImportedTitle == "imported"

\* A file that mido.MidiFile cannot decode: malformed or truncated.
Undecodable == [undecodable |-> TRUE]

\* A slip a failing import could make: the project replaced before the file
\* is decoded.
import_decode_error_late ==
    /\ pc = "idle" /\ mid = Undecodable
    /\ LET live == LiveSeq(<<>>, selected_notes)
       IN  /\ project' = MIDIProject(ImportedTitle)
           /\ heap' = CollectHeap(heap, live)
           /\ selected_notes' = CollectSel(selected_notes, live)
    /\ lastOp' = Op("import_midi_file", 0)
    /\ output' = Printed(IF use_gui THEN "Failed to import MIDI"
                         ELSE "Error loading file", <<>>)
    /\ UNCHANGED <<current_track_index, grid_size, use_gui, second2tick_rounds, game,
                   codecVars>>

\* import_midi_file on a file that cannot be decoded: mido.MidiFile raises,
\* and the caller reports the error.
import_decode_error ==
    /\ pc = "idle" /\ mid = Undecodable
    /\ lastOp' = Op("import_midi_file", 0)
    /\ output' = Printed(IF use_gui THEN "Failed to import MIDI"
                         ELSE "Error loading file", <<>>)
    /\ UNCHANGED <<editorVars, grid_size, use_gui, second2tick_rounds, game, codecVars>>

\* import_midi_file up to the loop over tracks: the file is read, the project
\* replaced and its tempo taken from the file.
import_open ==
    /\ pc = "idle" /\ mid # None /\ mid # Undecodable
    /\ LET live == LiveSeq(<<>>, selected_notes)
       IN  /\ project' = [MIDIProject(ImportedTitle) EXCEPT
                             !.tempo = FirstTempo(merge_tracks(mid.tracks))]
           /\ heap' = CollectHeap(heap, live)
           /\ selected_notes' = CollectSel(selected_notes, live)
    /\ pc' = "track"
    /\ imp' = TrackLocals(1)
    /\ lastOp' = Op("import_midi_file", 0)
    /\ output' = Nothing
    /\ UNCHANGED <<current_track_index, grid_size, use_gui, second2tick_rounds, game,
                   mid, saved>>

\* One pass of `for msg in midi_track`.
import_msg ==
    /\ pc = "track" /\ imp.i <= Len(mid.tracks)
    /\ imp.k <= Len(mid.tracks[imp.i])
    /\ LET msg == mid.tracks[imp.i][imp.k]
           current_time == imp.current_time
                           + tick2second(msg.time, mid.ticks_per_beat,
                                         bpm2tempo(project.tempo))
           r == OnMessage(imp.active_notes, msg, current_time)
           h == heap \o r.notes
       IN  /\ heap' = h
           /\ imp' = [imp EXCEPT
                         !.k = @ + 1,
                         !.current_time = current_time,
                         !.active_notes = r.active_notes,
                         !.track = IF r.notes = <<>> THEN @
                                   ELSE add_note(@, Len(h), h)]
    /\ UNCHANGED <<project, selected_notes, current_track_index, grid_size, use_gui,
                   second2tick_rounds, game, mid, saved, pc, lastOp, output>>

\* A slip the end of a track could make: the track joins the project even
\* when it has no notes.
import_end_track_always ==
    /\ pc = "track" /\ imp.i <= Len(mid.tracks)
    /\ imp.k > Len(mid.tracks[imp.i])
    /\ project' = [project EXCEPT !.tracks = Append(@, imp.track)]
    /\ imp' = TrackLocals(imp.i + 1)
    /\ UNCHANGED <<heap, selected_notes, current_track_index, grid_size, use_gui,
                   second2tick_rounds, game, mid, saved, pc, lastOp, output>>

\* The end of a track's messages: the track joins the project if it has
\* notes, and the loop over mid.tracks goes on.
import_end_track ==
    /\ pc = "track" /\ imp.i <= Len(mid.tracks)
    /\ imp.k > Len(mid.tracks[imp.i])
    /\ project' = [project EXCEPT !.tracks =
                      IF imp.track.notes # <<>> THEN Append(@, imp.track) ELSE @]
    /\ imp' = TrackLocals(imp.i + 1)
    /\ UNCHANGED <<heap, selected_notes, current_track_index, grid_size, use_gui,
                   second2tick_rounds, game, mid, saved, pc, lastOp, output>>

\* The loop over mid.tracks is over: import_midi_file returns to its caller,
\* which reports the file as loaded.
import_return ==
    /\ pc = "track" /\ imp.i > Len(mid.tracks)
    /\ Collected(project.tracks, heap, selected_notes)
    /\ pc' = "idle"
    /\ imp' = None
    /\ output' = Printed("Loaded", <<>>)
    /\ UNCHANGED <<current_track_index, grid_size, use_gui, second2tick_rounds, game,
                   mid, saved, lastOp>>

---------------------------------------------------------------------------
(* Importing foreign files: every file of at most MaxFileTracks tracks and *)
(* MaxFileMsgs messages over a small alphabet of messages.                 *)

FileMessages ==
    {Message("note_on", 0, 60, 80, 0), Message("note_on", 0, 60, 80, 1),
     Message("note_on", 0, 62, 80, 0),
     Message("note_off", 0, 60, 64, 0), Message("note_off", 0, 60, 64, 1),
     Message("note_off", 0, 62, 64, 1),
     Message("note_on", 0, 60, 0, 1),
     MetaSetTempo(857143, 0), MetaSetTempo(1000000, 1)}

\* The ways of cutting the messages ms into n consecutive tracks.
Cuts(ms, n) ==
    {[t \in 1..n |->
        SubSeq(ms, 1 + Cardinality({i \in DOMAIN c : c[i] < t}),
                   Cardinality({i \in DOMAIN c : c[i] <= t}))] :
     c \in {d \in [1..Len(ms) -> 1..n] :
              \A i \in 1..(Len(ms) - 1) : d[i] <= d[i + 1]}}

\* mido.MidiFile(file_path) has read some file within the bounds.
ForeignFile ==
    \E n \in 0..MaxFileTracks : \E k \in 0..MaxFileMsgs : \E ms \in [1..k -> FileMessages] :
        \E tr \in Cuts(ms, n) : mid = [ticks_per_beat |-> TicksPerBeat, tracks |-> tr]

ImportInit ==
    /\ EditorInit
    /\ game = None
    /\ use_gui = FALSE
    /\ second2tick_rounds = TRUE
    /\ ForeignFile
    /\ pc = "idle" /\ imp = None /\ saved = None

ImportNext ==
    \/ import_open
    \/ import_msg
    \/ import_end_track
    \/ import_return

SpecImport == ImportInit /\ [][ImportNext]_vars

---------------------------------------------------------------------------
(* Export and re-import: a project is built by the CLI, exported, and the  *)
(* file imported again.                                                    *)

cli_set_tempo(tempo) ==
    /\ ~use_gui /\ pc = "idle"
    /\ IF MinTempo <= tempo /\ tempo <= MaxTempo
       THEN /\ project' = [project EXCEPT !.tempo = tempo]
            /\ output' = Printed("Tempo set", <<>>)
       ELSE /\ project' = project
            /\ output' = Printed("Tempo must be between 60 and 200 BPM", <<>>)
    /\ lastOp' = Op("cli_set_tempo", tempo)
    /\ UNCHANGED <<heap, current_track_index, selected_notes, grid_size>>
    /\ UNCHANGED <<use_gui, second2tick_rounds, game, codecVars>>

\* One tick at the default tempo, in model time units.
Tick == bpm2tempo(DefaultTempo)

CodecPitches == {60, 62}

CodecStarts == {0, (3 * Tick) \div 5, 6 * Tick}

CodecDurations == {0, (6 * Tick) \div 5}

CodecTempos == {60, 250}

\* Velocities typed at cli_add_note, which takes any integer.
CodecVelocities == {80, 0}

\* Track names typed at cli_add_track; "" asks for the default name.
CodecNames == {"", "Lead"}

CodecInit ==
    /\ EditorInit
    /\ game = None
    /\ use_gui = FALSE
    /\ second2tick_rounds \in BOOLEAN
    /\ mid = None /\ pc = "idle" /\ imp = None /\ saved = None

CodecNext ==
    \/ mid = None /\ \E name \in CodecNames : cli_add_track(name)
    \/ mid = None /\ \E n \in 1..MaxTracks : cli_select_track(n)
    \/ mid = None /\ \E p \in CodecPitches, st \in CodecStarts, d \in CodecDurations,
                          v \in CodecVelocities : cli_add_note(p, st, d, v)
    \/ mid = None /\ \E t \in CodecTempos : cli_set_tempo(t)
    \/ export_midi
    \/ import_open
    \/ import_msg
    \/ import_end_track
    \/ import_return

SpecCodec == CodecInit /\ [][CodecNext]_vars

---------------------------------------------------------------------------
(* Properties of the importer.                                             *)

Importing == pc = "track" /\ imp.i <= Len(mid.tracks)

Imported == pc = "idle" /\ lastOp.op = "import_midi_file"

\* The message the importer is about to process, and the time it will have.
AtMessage == Importing /\ imp.k <= Len(mid.tracks[imp.i])

NextMsg == mid.tracks[imp.i][imp.k]

NextTime ==
    imp.current_time
    + tick2second(NextMsg.time, mid.ticks_per_beat, bpm2tempo(project.tempo))

\* Pitch p has a pending note-on just before message k of msgs: a note-on for
\* p came earlier and no note-off for p came since.
PendingAt(msgs, k, p) ==
    \E i \in 1..(k - 1) :
        /\ IsNoteOn(msgs[i]) /\ msgs[i].note = p
        /\ \A j \in (i + 1)..(k - 1) : ~(IsNoteOff(msgs[j]) /\ msgs[j].note = p)

\* The number of pending entries for p closed by the first k messages.
ClosedCount(msgs, k, p) ==
    Cardinality({j \in 1..k : /\ IsNoteOff(msgs[j]) /\ msgs[j].note = p
                              /\ PendingAt(msgs, j, p)})

NotesOfPitch(ids, h, p) == Cardinality({i \in 1..Len(ids) : h[ids[i]].note = p})

FilePitches == {m.note : m \in UNION {Range(mid.tracks[t]) : t \in 1..Len(mid.tracks)}}

\* C3: a note-on with velocity > 0 for a pitch with a pending note-on closes
\* the pending note, emits it with duration = new start - old start, and opens
\* a new pending entry for the new event.
C3_RetriggerCloses ==
    [][(AtMessage /\ IsNoteOn(NextMsg) /\ PendingAt(mid.tracks[imp.i], imp.k, NextMsg.note)) =>
        LET old == imp.active_notes[NextMsg.note]
        IN  /\ Len(imp'.track.notes) = Len(imp.track.notes) + 1
            /\ \E id \in Range(imp'.track.notes) \ Range(imp.track.notes) :
                  /\ heap'[id].note = NextMsg.note
                  /\ heap'[id].start_time = old.start_time
                  /\ heap'[id].start_time + heap'[id].duration = NextTime
            /\ NextMsg.note \in DOMAIN imp'.active_notes
            /\ imp'.active_notes[NextMsg.note].start_time = NextTime]_vars

\* C4: a note-off, or a note-on of velocity 0, for a pitch with no pending
\* note-on in its track emits no note, raises nothing, and leaves the pending
\* map and the notes emitted so far as they were.
C4_OrphanOffIgnored ==
    [][(AtMessage /\ IsNoteOff(NextMsg) /\ ~PendingAt(mid.tracks[imp.i], imp.k, NextMsg.note)) =>
        /\ imp'.track = imp.track
        /\ imp'.active_notes = imp.active_notes
        /\ heap' = heap
        /\ project' = project
        /\ pc' = "track" /\ imp'.i = imp.i /\ imp'.k = imp.k + 1]_vars

\* An unmatched note-off has just been processed after a note was emitted.
C4_Witness ==
    /\ Importing /\ imp.k > 1
    /\ LET msgs == mid.tracks[imp.i]
       IN  /\ IsNoteOff(msgs[imp.k - 1])
           /\ ~PendingAt(msgs, imp.k - 1, msgs[imp.k - 1].note)
    /\ imp.track.notes # <<>>

\* C5: at every point of a track's import the notes emitted for a pitch are as
\* many as the pending entries for it closed so far, so a note-on still
\* pending at the end of the track is not emitted; and the imported project
\* holds exactly those notes.
C5_DanglingNeverEmitted ==
    /\ Importing =>
          \A p \in FilePitches \cup {heap[id].note : id \in Range(imp.track.notes)} :
              NotesOfPitch(imp.track.notes, heap, p)
                  = ClosedCount(mid.tracks[imp.i], imp.k - 1, p)
    /\ Imported =>
          \A p \in FilePitches \cup {heap[id].note : id \in Range(Flatten(project.tracks))} :
              NotesOfPitch(Flatten(project.tracks), heap, p)
                  = Sum([t \in 1..Len(mid.tracks) |->
                            ClosedCount(mid.tracks[t], Len(mid.tracks[t]), p)])

\* An import is over whose file had a track ending on a pending note-on for a
\* pitch that the track had completed a note for.
C5_Witness ==
    /\ Imported
    /\ \E t \in 1..Len(mid.tracks) : \E p \in FilePitches :
          /\ PendingAt(mid.tracks[t], Len(mid.tracks[t]) + 1, p)
          /\ ClosedCount(mid.tracks[t], Len(mid.tracks[t]), p) = 1
    /\ Len(Flatten(project.tracks)) = 1

\* The positions <<track, index>> of the file's tempo events.
TempoEvents ==
    {e \in UNION {{<<t, k>> : k \in 1..Len(mid.tracks[t])} : t \in 1..Len(mid.tracks)} :
        mid.tracks[e[1]][e[2]].type = "set_tempo"}

AbsTick(t, k) == Sum([j \in 1..k |-> mid.tracks[t][j].time])

\* Event a comes before event b: at an earlier tick, or at the same tick and
\* earlier in the file.
Before(a, b) ==
    \/ AbsTick(a[1], a[2]) < AbsTick(b[1], b[2])
    \/ /\ AbsTick(a[1], a[2]) = AbsTick(b[1], b[2])
       /\ (a[1] < b[1] \/ (a[1] = b[1] /\ a[2] < b[2]))

FileBpm ==
    IF TempoEvents = {} THEN 120
    ELSE LET first == CHOOSE e \in TempoEvents :
                          \A o \in TempoEvents \ {e} : Before(e, o)
         IN  MicrosPerMinute \div mid.tracks[first[1]][first[2]].tempo

\* C10: during and after an import project.tempo is the BPM of the file's
\* first tempo event, 120 if it has none, whatever tempo events follow; and
\* the clock of the track being imported is its tick count converted at that
\* one tempo.
C10_FirstTempoOnly ==
    lastOp.op = "import_midi_file" =>
        /\ project.tempo = FileBpm
        /\ Importing =>
              imp.current_time
                  = tick2second(AbsTick(imp.i, imp.k - 1), mid.ticks_per_beat,
                                bpm2tempo(FileBpm))

\* An import is over whose file had two tempo events of different tempo, the
\* later one followed by a message with a delta time.
C10_Witness ==
    /\ Imported
    /\ \E a, b \in TempoEvents :
          /\ Before(a, b)
          /\ mid.tracks[a[1]][a[2]].tempo # mid.tracks[b[1]][b[2]].tempo
          /\ project.tempo = MicrosPerMinute \div mid.tracks[a[1]][a[2]].tempo
          /\ b[2] < Len(mid.tracks[b[1]])
          /\ mid.tracks[b[1]][b[2] + 1].time > 0

---------------------------------------------------------------------------
(* Properties of the exporter and of the round trip.                       *)

ValidNote(n) ==
    /\ InRange(n.note)
    /\ 1 <= n.velocity /\ n.velocity <= 127
    /\ n.channel \in 0..15
    /\ n.start_time >= 0
    /\ n.duration > 0

Abs(x) == IF x >= 0 THEN x ELSE -x

\* a and b differ by at most one tick at `bpm`: 60/(bpm*ticks_per_beat) s.
WithinTick(a, b, bpm) == Abs(a - b) * bpm <= MicrosPerMinute

\* The notes `got` are the notes `orig`, one for one, up to a tick.
SameNotes(orig, got, bpm) ==
    /\ Len(orig) = Len(got)
    /\ \E f \in [1..Len(orig) -> 1..Len(orig)] :
          /\ \A i, j \in 1..Len(orig) : f[i] = f[j] => i = j
          /\ \A i \in 1..Len(orig) :
                /\ got[f[i]].note = orig[i].note
                /\ got[f[i]].velocity = orig[i].velocity
                /\ got[f[i]].channel = orig[i].channel
                /\ WithinTick(got[f[i]].start_time, orig[i].start_time, bpm)
                /\ WithinTick(got[f[i]].duration, orig[i].duration, bpm)

\* C2: when a project of valid notes is exported and the file imported, the
\* project has, track by track (the exported tracks that have notes), the
\* same notes up to one tick in start_time and duration.
C2_RoundTrip ==
    (/\ Imported /\ saved # None
     /\ \A t \in 1..Len(saved.tracks) : \A n \in Range(saved.tracks[t]) : ValidNote(n))
    => LET orig == SelectSeq(saved.tracks, LAMBDA tr : tr # <<>>)
           got == Snapshot(project, heap).tracks
       IN  /\ Len(got) = Len(orig)
           /\ \A t \in 1..Len(orig) : SameNotes(orig[t], got[t], saved.tempo)

\* C9: in the events of every exported track time never decreases, and a
\* note-on never comes before the note-off of another note at the same time.
C9_OffBeforeOn ==
    lastOp.op = "export_midi_file" =>
        \A t \in 1..Len(project.tracks) :
            LET evs == ExportEvents(project.tracks[t], heap)
            IN  \A i, j \in 1..Len(evs) : i < j =>
                   /\ evs[i].time <= evs[j].time
                   /\ ~(/\ evs[i].time = evs[j].time
                        /\ evs[i].type = "note_on" /\ evs[j].type = "note_off"
                        /\ evs[i].src # evs[j].src)

---------------------------------------------------------------------------
(* The tracks of an imported project.                                      *)

\* The number of notes that the messages of a track complete.
Completed(msgs) ==
    Cardinality({j \in 1..Len(msgs) :
                    IsNoteOff(msgs[j]) /\ PendingAt(msgs, j, msgs[j].note)})

\* The file tracks that complete a note, in file order.
Yielding ==
    SelectSeq([t \in 1..Len(mid.tracks) |-> t],
              LAMBDA t : Completed(mid.tracks[t]) > 0)

FileTrackName(t) ==
    LET ns == SelectSeq(mid.tracks[t], LAMBDA m : m.type = "track_name")
    IN  IF ns # <<>> THEN ns[1].name ELSE TrackName(t)

\* C12: every track of an imported project has the name given by the
\* track_name message of its file track, or "Track N" when there is none.
C12_TrackNames ==
    Imported =>
        \A j \in 1..Len(project.tracks) :
            j <= Len(Yielding) => project.tracks[j].name = FileTrackName(Yielding[j])

---------------------------------------------------------------------------
(* The meta messages of an exported file.                                  *)

\* C13: every exported track starts with the track_name message of its
\* track, the first track and no other carries a set_tempo for the project's
\* tempo, and importing the exported file gives the exported project's tempo.
C13_NameAndTempoMeta ==
    /\ lastOp.op = "export_midi_file" =>
          \A t \in 1..Len(mid.tracks) :
              /\ mid.tracks[t] # <<>>
              /\ mid.tracks[t][1] = MetaTrackName(project.tracks[t].name)
              /\ (\E m \in Range(mid.tracks[t]) : m.type = "set_tempo") <=> t = 1
              /\ \A m \in Range(mid.tracks[t]) :
                    m.type = "set_tempo" => m.tempo = bpm2tempo(project.tempo)
    /\ (Imported /\ saved # None) => project.tempo = saved.tempo

---------------------------------------------------------------------------
(* Views of the project: get_duration, get_all_notes and the commands that *)
(* print them.                                                             *)

\* MIDIProject.get_duration
get_duration(proj, h) ==
    IF proj.tracks = <<>> THEN 0
    ELSE LET ds == {track_get_duration(proj.tracks[t], h) : t \in 1..Len(proj.tracks)}
         IN  CHOOSE m \in ds : \A d \in ds : d <= m

\* A slip get_all_notes could make: the tracks' notes joined but not sorted.
get_all_notes_unsorted(proj, h) == Flatten(proj.tracks)

\* MIDIProject.get_all_notes
get_all_notes(proj, h) == sort_notes(Flatten(proj.tracks), h)

\* f"{x:.2f}" of a time: hundredths of a second.
Format2f(x) == PyRound(x, Second \div 100)

NoteNames == <<"C", "C#", "D", "D#", "E", "F", "F#", "G", "G#", "A", "A#", "B">>

\* MIDIEditor.midi_to_note_name
midi_to_note_name(midi_num) ==
    IF ~(0 <= midi_num /\ midi_num <= 127) THEN <<"MIDI", midi_num>>
    ELSE <<NoteNames[(midi_num % 12) + 1], (midi_num \div 12) - 1>>

cli_project_info ==
    /\ ~use_gui /\ pc = "idle"
    /\ lastOp' = Op("cli_project_info", 0)
    /\ output' = Printed("Project",
                         [title |-> project.title, tempo |-> project.tempo,
                          duration |-> Format2f(get_duration(project, heap)),
                          tracks |-> Len(project.tracks),
                          notes |-> Len(get_all_notes(project, heap))])
    /\ UNCHANGED <<editorVars, grid_size, use_gui, second2tick_rounds, game, codecVars>>

cli_play_project ==
    /\ ~use_gui /\ pc = "idle"
    /\ lastOp' = Op("cli_play_project", 0)
    /\ LET all_notes == get_all_notes(project, heap)
       IN  output' =
             IF all_notes = <<>> THEN Printed("No notes to play", <<>>)
             ELSE Printed("Playing",
                     [duration |-> Format2f(get_duration(project, heap)),
                      notes |-> [i \in 1..Len(all_notes) |->
                          [start |-> Format2f(heap[all_notes[i]].start_time),
                           name |-> midi_to_note_name(heap[all_notes[i]].note),
                           vel |-> heap[all_notes[i]].velocity]]])
    /\ UNCHANGED <<editorVars, grid_size, use_gui, second2tick_rounds, game, codecVars>>

ViewStarts == {Second \div 8, Second \div 4, Second \div 2}

ViewDurations == {Second \div 8, Second}

ViewInit ==
    /\ EditorInit
    /\ game = None
    /\ use_gui = FALSE
    /\ second2tick_rounds = TRUE
    /\ mid = None /\ pc = "idle" /\ imp = None /\ saved = None

ViewNext ==
    \/ cli_add_track("")
    \/ \E number \in 1..MaxTracks : cli_select_track(number)
    \/ \E st \in ViewStarts, d \in ViewDurations : cli_add_note(60, st, d, 80)
    \/ \E number \in 1..MaxNotes : cli_delete_note(number)
    \/ \E grid \in CliGrids : cli_quantize_track(grid)
    \/ \E data \in JsonFiles : cli_load_project_json(data)
    \/ cli_project_info
    \/ cli_play_project

SpecView == ViewInit /\ [][ViewNext]_vars

\* Every end time, start_time + duration, of a note of the tracks.
EndTimes(tracks, h) ==
    {h[id].start_time + h[id].duration : id \in Range(Flatten(tracks))}

\* m is the latest of the end times S, 0 when there is none.
LatestOf(m, S) == IF S = {} THEN m = 0 ELSE m \in S /\ \A e \in S : e <= m

Occurrences(s, x) == Cardinality({i \in 1..Len(s) : s[i] = x})

ViewStep == lastOp'.op \in {"cli_project_info", "cli_play_project"}

\* C15: get_all_notes returns every note of every track exactly once, as many
\* notes as the tracks hold together, in non-decreasing order of start_time;
\* and the commands that call it leave the project and its notes as they were.
C15_AllNotes ==
    /\ [](LET all_notes == get_all_notes(project, heap)
              held == Flatten(project.tracks)
          IN  /\ Len(all_notes) = Sum([t \in 1..Len(project.tracks) |->
                                          Len(project.tracks[t].notes)])
              /\ \A id \in 1..Len(heap) :
                    Occurrences(all_notes, id) = Occurrences(held, id)
              /\ Range(all_notes) = Range(held)
              /\ Sorted(all_notes, heap))
    /\ [][ViewStep => project' = project /\ heap' = heap]_vars

\* The notes have just been listed for a project whose first track holds a
\* note that starts after a note of its second track.
C15_Witness ==
    /\ lastOp.op = "cli_play_project" /\ output.text = "Playing"
    /\ Len(project.tracks) = 2
    /\ \E a \in Range(project.tracks[1].notes), b \in Range(project.tracks[2].notes) :
          heap[a].start_time > heap[b].start_time
    /\ Len(output.fields.notes) = 2

---------------------------------------------------------------------------
(* Loading into a project that has been edited: a file that decodes and    *)
(* one that does not.                                                      *)

LoadFiles ==
    {Undecodable,
     [ticks_per_beat |-> TicksPerBeat,
      tracks |-> <<<<Message("note_on", 0, 62, 80, 0),
                     Message("note_off", 0, 62, 64, 1)>>>>]}

LoadInit ==
    /\ EditorInit
    /\ game = None
    /\ use_gui = FALSE
    /\ second2tick_rounds = TRUE
    /\ mid \in LoadFiles
    /\ pc = "idle" /\ imp = None /\ saved = None

LoadNext ==
    \/ cli_add_track("")
    \/ \E number \in 1..MaxTracks : cli_select_track(number)
    \/ \E st \in ViewStarts, d \in ViewDurations : cli_add_note(60, st, d, 80)
    \/ import_decode_error
    \/ import_open
    \/ import_msg
    \/ import_end_track
    \/ import_return

SpecLoad == LoadInit /\ [][LoadNext]_vars

---------------------------------------------------------------------------
(* Exporting projects that hold notes no MIDI message can carry.           *)

JsonNoteAt(note, velocity, st) ==
    [note |-> note, velocity |-> velocity, start_time |-> st,
     duration |-> Second \div 8, channel |-> 0]

\* JSON projects with a pitch out of range in the first or the second track,
\* first or last of its track, and projects without one.
ExportJsonFiles ==
    {JsonFile(<<JsonTrack(1, <<JsonNoteAt(200, 80, Second \div 8)>>)>>),
     JsonFile(<<JsonTrack(1, <<JsonNoteAt(60, 80, Second \div 8)>>),
                JsonTrack(2, <<JsonNoteAt(62, 80, Second \div 8),
                               JsonNoteAt(-1, 80, Second \div 4)>>)>>),
     JsonFile(<<JsonTrack(1, <<JsonNoteAt(128, 80, Second \div 8),
                               JsonNoteAt(60, 80, Second \div 4)>>),
                JsonTrack(2, <<>>)>>),
     JsonFile(<<JsonTrack(1, <<JsonNoteAt(60, 80, Second \div 8)>>),
                JsonTrack(2, <<JsonNoteAt(62, 0, Second \div 4)>>)>>)}

ExportInit ==
    /\ EditorInit
    /\ game = None
    /\ use_gui = FALSE
    /\ second2tick_rounds \in BOOLEAN
    /\ mid = None /\ pc = "idle" /\ imp = None /\ saved = None

ExportNext ==
    \/ mid = None /\ cli_add_track("")
    \/ mid = None /\ \E number \in 1..MaxTracks : cli_select_track(number)
    \/ mid = None /\ \E p \in {0, 127}, st \in ViewStarts : cli_add_note(p, st, Second \div 8, 80)
    \/ mid = None /\ \E number \in 1..MaxNotes : cli_delete_note(number)
    \/ mid = None /\ \E data \in ExportJsonFiles : cli_load_project_json(data)
    \/ export_midi

SpecExport == ExportInit /\ [][ExportNext]_vars

ExportStep == lastOp'.op = "export_midi_file"

\* C17: an export of a project that holds a note of pitch outside [0,127], in
\* whatever track and position, ends in an error and writes no file.
C17_PitchOutOfRange ==
    [][(ExportStep /\ \E id \in Range(Flatten(project.tracks)) : ~InRange(heap[id].note)) =>
        /\ output'.text = "Error exporting MIDI"
        /\ mid' = mid
        /\ saved' = saved]_vars

\* An export has just failed for a project whose only note out of range is
\* the last note of its second track.
C17_Witness ==
    /\ lastOp.op = "export_midi_file" /\ output.text = "Error exporting MIDI"
    /\ mid = None
    /\ Len(project.tracks) = 2
    /\ \A id \in Range(project.tracks[1].notes) : InRange(heap[id].note)
    /\ Len(project.tracks[2].notes) = 2
    /\ InRange(heap[project.tracks[2].notes[1]].note)
    /\ ~InRange(heap[project.tracks[2].notes[2]].note)

\* C18: an export, whether it writes a file or fails, leaves the project, its
\* tracks and every note as they were; and an export that follows a
\* successful export of the same project writes the same file.
C18_ExportPure ==
    [][ExportStep =>
        /\ project' = project
        /\ heap' = heap
        /\ selected_notes' = selected_notes
        /\ current_track_index' = current_track_index
        /\ (lastOp.op = "export_midi_file" /\ output.text = "Exported") => mid' = mid]_vars

\* A second export of a project with an empty track and a track of notes has
\* just written its file.
C18_Witness ==
    /\ lastOp.op = "export_midi_file" /\ output.text = "Exported"
    /\ mid # None /\ saved = Snapshot(project, heap)
    /\ \E t \in 1..Len(project.tracks) : project.tracks[t].notes = <<>>
    /\ \E t \in 1..Len(project.tracks) : Len(project.tracks[t].notes) = 2

---------------------------------------------------------------------------
(* Notes of velocity 0.                                                    *)

\* C19: an exported file has no note_on message of velocity 0, and the import
\* of an exported file gives back as many notes as the project had.
C19_NoZeroVelocityOn ==
    /\ (lastOp.op = "export_midi_file" /\ output.text = "Exported") =>
          \A t \in 1..Len(mid.tracks) : \A m \in Range(mid.tracks[t]) :
              ~(m.type = "note_on" /\ m.velocity = 0)
    /\ (Imported /\ saved # None) =>
          Len(Flatten(project.tracks))
              = Sum([t \in 1..Len(saved.tracks) |-> Len(saved.tracks[t])])

---------------------------------------------------------------------------
(* The tempo control of the toolbar and the tempo command.                 *)

\* tk.Spinbox(toolbar, from_=60, to=200, ..., command=self.update_tempo)
SpinFrom == 60
SpinTo == 200

\* The text of the spinbox entry when an arrow is pressed: the user may have
\* typed anything into it.
SpinText(value) == [numeric |-> TRUE, value |-> value]
NotANumber == [numeric |-> FALSE, value |-> 0]

\* The value an arrow press asks for: the text plus or minus the increment 1.
SpinRequest(text, up) ==
    IF ~text.numeric THEN SpinFrom
    ELSE IF up THEN text.value + 1 ELSE text.value - 1

\* An arrow press that writes the requested value without the from/to limits.
SpinboxInvokeUnlimited(text, up) == SpinRequest(text, up)

\* What the widget writes to tempo_var before it calls the command: the
\* requested value limited to from_..to, from_ when the text is not a number.
SpinboxInvoke(text, up) ==
    LET value == SpinRequest(text, up)
    IN  IF value > SpinTo THEN SpinTo
        ELSE IF value < SpinFrom THEN SpinFrom
        ELSE value

\* MIDIEditor.update_tempo, the command of the spinbox: it runs on an arrow
\* press, after the widget has written tempo_var, and stores int(tempo_var)
\* without a range check of its own.
update_tempo(text, up) ==
    /\ use_gui /\ pc = "idle"
    /\ project' = [project EXCEPT !.tempo = SpinboxInvoke(text, up)]
    /\ lastOp' = Op("update_tempo", SpinRequest(text, up))
    /\ output' = Nothing
    /\ UNCHANGED <<heap, current_track_index, selected_notes, grid_size>>
    /\ UNCHANGED <<use_gui, second2tick_rounds, game, codecVars>>

\* Tempo arguments of the CLI command and texts typed into the spinbox.
TempoRequests == {MinTempo - 1, MinTempo, 130, MaxTempo, MaxTempo + 1}
SpinTexts == {NotANumber} \cup {SpinText(v) : v \in {10, 59, 120, 150, 200, 500}}

\* JSON projects whose tempo field is outside the editing range.
TempoJsonFiles ==
    {[JsonFile(<<JsonTrack(1, <<>>)>>) EXCEPT !.tempo = t] : t \in {30, 250}}

TempoInit ==
    /\ EditorInit
    /\ game = None
    /\ use_gui \in BOOLEAN
    /\ second2tick_rounds = TRUE
    /\ mid = None /\ pc = "idle" /\ imp = None /\ saved = None

TempoNext ==
    \/ \E tempo \in TempoRequests : cli_set_tempo(tempo)
    \/ \E text \in SpinTexts, up \in BOOLEAN : update_tempo(text, up)
    \/ \E data \in TempoJsonFiles : cli_load_project_json(data)
    \/ \E data \in TempoJsonFiles : open_project_json(data)
    \/ cli_add_track("")
    \/ \E number \in 1..MaxTracks : cli_select_track(number)
    \/ \E row \in 0..(MaxTracks - 1) : on_track_select(row)

SpecTempo == TempoInit /\ [][TempoNext]_vars

InTempoRange(tempo) == MinTempo <= tempo /\ tempo <= MaxTempo

FileLoad == lastOp'.op \in {"cli_load_project", "open_project"}

\* C20: no step other than a file load takes the tempo out of [60, 200]; the
\* CLI tempo command rejects a value outside [60, 200], prints the range and
\* leaves the project unchanged; the GUI tempo control does not reject such a
\* value but stores it limited to the nearer end of the range.
C20_TempoRange ==
    [][ /\ (~FileLoad /\ InTempoRange(project.tempo))
            => InTempoRange(project'.tempo)
        /\ (lastOp'.op = "cli_set_tempo" /\ ~InTempoRange(lastOp'.arg))
            => /\ project' = project
               /\ output'.text = "Tempo must be between 60 and 200 BPM"
        /\ (lastOp'.op = "cli_set_tempo" /\ InTempoRange(lastOp'.arg))
            => project'.tempo = lastOp'.arg
        /\ lastOp'.op = "update_tempo"
            => project'.tempo = IF lastOp'.arg > MaxTempo THEN MaxTempo
                                ELSE IF lastOp'.arg < MinTempo THEN MinTempo
                                ELSE lastOp'.arg ]_vars

\* The spinbox was asked for a tempo above 200 and the project holds 200.
C20_Witness ==
    /\ lastOp.op = "update_tempo"
    /\ lastOp.arg > MaxTempo
    /\ project.tempo = MaxTempo

\* C20 as stated: every tempo request outside [60, 200], from the CLI or from
\* the GUI, leaves the tempo unchanged.
C20_OutOfRangeRejected ==
    [][(lastOp'.op \in {"cli_set_tempo", "update_tempo"}
            /\ ~InTempoRange(lastOp'.arg))
        => project'.tempo = project.tempo]_vars

---------------------------------------------------------------------------
(* The frame of quantize_notes.                                            *)

QuantizeStep == lastOp'.op = "cli_quantize_track" /\ output'.text = "Quantized"

\* C21: quantize_notes(g), g > 0, sets the start_time of every note of the
\* track to round(start_time / g) * g, keeps end_time = start_time + duration,
\* leaves duration, pitch, velocity and channel of every note unchanged, and
\* neither adds nor removes a note; notes of other tracks are not touched.
C21_QuantizeFrame ==
    [][QuantizeStep =>
        LET g == lastOp'.arg
            sel == Range(Track.notes)
        IN  /\ g > 0
            /\ project' = project
            /\ DOMAIN heap' = DOMAIN heap
            /\ \A id \in DOMAIN heap :
                  /\ id \notin sel => heap'[id] = heap[id]
                  /\ id \in sel =>
                        /\ heap'[id].start_time
                              = PyRound(heap[id].start_time, g) * g
                        /\ heap'[id].end_time
                              = heap'[id].start_time + heap'[id].duration
                        /\ heap'[id].duration = heap[id].duration
                        /\ heap'[id].note = heap[id].note
                        /\ heap'[id].velocity = heap[id].velocity
                        /\ heap'[id].channel = heap[id].channel]_vars

\* C21's case: a quantize of a two-note track has moved a note to 0, and its
\* end_time is now its duration.
C21_Witness ==
    /\ lastOp.op = "cli_quantize_track" /\ output.text = "Quantized"
    /\ Len(Track.notes) = 2
    /\ \E i \in 1..2 :
          /\ heap[Track.notes[i]].start_time = 0
          /\ heap[Track.notes[i]].duration > 0
          /\ heap[Track.notes[i]].end_time = heap[Track.notes[i]].duration

---------------------------------------------------------------------------
(* Closing a pending note.                                                 *)

\* The pending note-on for pitch p just before message k: the latest note-on
\* for p among the first k - 1 messages.
LastOn(msgs, k, p) ==
    CHOOSE i \in 1..(k - 1) :
        /\ IsNoteOn(msgs[i]) /\ msgs[i].note = p
        /\ \A j \in (i + 1)..(k - 1) : ~(IsNoteOn(msgs[j]) /\ msgs[j].note = p)

\* The time of message k of track t on the importer's clock.
ClockAt(t, k) ==
    tick2second(AbsTick(t, k), mid.ticks_per_beat, bpm2tempo(project.tempo))

\* C22: a note-off, or a note-on of velocity 0, for a pitch with a pending
\* note-on emits exactly one note: of that pitch, starting at the time of the
\* pending note-on, with the velocity of the pending note-on and duration =
\* current time - start time; the pending entry is removed, so that a further
\* note-off for the pitch with no note-on in between emits nothing.
C22_NoteOffCloses ==
    [][(AtMessage /\ IsNoteOff(NextMsg)) =>
        LET msgs == mid.tracks[imp.i]
            p == NextMsg.note
        IN  IF PendingAt(msgs, imp.k, p)
            THEN LET on == LastOn(msgs, imp.k, p)
                     new == {i \in 1..Len(imp'.track.notes) :
                                imp'.track.notes[i] \notin Range(imp.track.notes)}
                 IN  /\ Len(imp'.track.notes) = Len(imp.track.notes) + 1
                     /\ Cardinality(new) = 1
                     /\ \A i \in new :
                           LET n == heap'[imp'.track.notes[i]]
                           IN  /\ n.note = p
                               /\ n.start_time = ClockAt(imp.i, on)
                               /\ n.velocity = msgs[on].velocity
                               /\ n.duration = NextTime - n.start_time
                     /\ p \notin DOMAIN imp'.active_notes
                     /\ ~PendingAt(msgs, imp.k + 1, p)
            ELSE /\ imp'.track = imp.track
                 /\ heap' = heap]_vars

\* C22's case: a note-on after a delta, its note-off after a further delta,
\* and a second note-off for the pitch have been processed; one note exists.
C22_Witness ==
    /\ Importing /\ imp.k = 4
    /\ LET msgs == mid.tracks[imp.i]
       IN  /\ IsNoteOn(msgs[1]) /\ msgs[1].time > 0
           /\ IsNoteOff(msgs[2]) /\ msgs[2].note = msgs[1].note /\ msgs[2].time > 0
           /\ IsNoteOff(msgs[3]) /\ msgs[3].note = msgs[1].note
    /\ Len(imp.track.notes) = 1
    /\ heap[imp.track.notes[1]].start_time > 0
    /\ heap[imp.track.notes[1]].duration > 0

---------------------------------------------------------------------------
(* The importer's clock and pending map belong to one track.               *)

\* C23: the clock and the pending map are per track: at the first event of
\* every track the clock is 0 and the map is empty; the map holds, for each
\* pitch, at most the one entry of the latest unclosed note-on of the track
\* being read; and every note of a track was opened and closed by messages of
\* that track, so a note-off never closes a note-on of another track.
C23_PerTrackState ==
    Importing =>
        LET msgs == mid.tracks[imp.i]
        IN  /\ imp.k = 1 => imp.current_time = 0 /\ imp.active_notes = NoPending
            /\ imp.current_time = ClockAt(imp.i, imp.k - 1)
            /\ DOMAIN imp.active_notes
                  = {p \in FilePitches : PendingAt(msgs, imp.k, p)}
            /\ \A p \in DOMAIN imp.active_notes :
                  imp.active_notes[p]
                      = [start_time |-> ClockAt(imp.i, LastOn(msgs, imp.k, p)),
                         velocity |-> msgs[LastOn(msgs, imp.k, p)].velocity]
            /\ \A id \in Range(imp.track.notes) :
                  \E i, j \in 1..(imp.k - 1) :
                      /\ i < j
                      /\ IsNoteOn(msgs[i]) /\ msgs[i].note = heap[id].note
                      /\ IsNoteOff(msgs[j]) /\ msgs[j].note = heap[id].note
                      /\ heap[id].start_time = ClockAt(imp.i, i)
                      /\ heap[id].end_time = ClockAt(imp.i, j)

\* C23's case: the first track ended on a pending note-on after a delta, and
\* the second track's first message, a note-off for that pitch, has been
\* processed without a note.
C23_Witness ==
    /\ Importing /\ imp.i = 2 /\ imp.k = 2
    /\ \E p \in FilePitches :
          /\ PendingAt(mid.tracks[1], Len(mid.tracks[1]) + 1, p)
          /\ IsNoteOff(mid.tracks[2][1]) /\ mid.tracks[2][1].note = p
    /\ AbsTick(1, Len(mid.tracks[1])) > 0
    /\ imp.track.notes = <<>>
    /\ imp.current_time = ClockAt(2, 1)

---------------------------------------------------------------------------
(* The duration of imported notes.                                         *)

\* C24: every note the importer emits has duration > 0, that is end_time >
\* start_time, whatever the events of the file are.
C24_PositiveDuration ==
    lastOp.op = "import_midi_file" =>
        \A id \in Range(Flatten(project.tracks))
                  \cup (IF Importing THEN Range(imp.track.notes) ELSE {}) :
            /\ heap[id].duration > 0
            /\ heap[id].end_time > heap[id].start_time

---------------------------------------------------------------------------
(* The delta times of an exported track.                                   *)

\* The time of the event before event k of evs, 0 for the first.
PreviousTime(evs, k) == IF k = 1 THEN 0 ELSE evs[k - 1].time

\* C25, for the mido whose second2tick rounds: in every exported track the
\* delta of each event is a non-negative integer, the ticks of (event time -
\* previous time) rounded to the nearest integer, and the tick position of
\* every event, the sum of the deltas up to it, is within one tick of its
\* exact position event_time * bpm * ticks_per_beat / 60.
C25_DeltaWithinTick ==
    (second2tick_rounds /\ lastOp.op = "export_midi_file" /\ output.text = "Exported") =>
        \A t \in 1..Len(project.tracks) :
            LET evs == ExportEvents(project.tracks[t], heap)
                tick == bpm2tempo(project.tempo)
            IN  \A k \in 1..Len(evs) :
                   /\ mid.tracks[t][k + 1].time >= 0
                   /\ mid.tracks[t][k + 1].time
                         = PyRound(evs[k].time - PreviousTime(evs, k), tick)
                   /\ Abs(AbsTick(t, k + 1) * MicrosPerMinute
                          - evs[k].time * project.tempo) <= MicrosPerMinute

---------------------------------------------------------------------------
(* The importer's clock.                                                   *)

\* Microseconds per beat of the file's first tempo event, 500000 if none.
FileTempo ==
    IF TempoEvents = {} THEN bpm2tempo(DefaultTempo)
    ELSE LET first == CHOOSE e \in TempoEvents :
                          \A o \in TempoEvents \ {e} : Before(e, o)
         IN  mid.tracks[first[1]][first[2]].tempo

\* `seconds` is ticks * 60 / (bpm * ticks_per_beat), with bpm read either as
\* the integer BPM of the first tempo event or as its exact tempo.
ExactSeconds(seconds, ticks) ==
    \/ seconds * FileBpm = ticks * MicrosPerMinute * TickScale(mid.ticks_per_beat)
    \/ seconds = ticks * FileTempo * TickScale(mid.ticks_per_beat)

\* C26: during an import the clock of a track never decreases, and the
\* start_time of every imported note is the sum of the deltas of its track up
\* to and including its note-on, times 60 / (bpm * ticks_per_beat), where bpm
\* is the tempo of the file's first tempo event, 120 if it has none.
C26_ImportClock ==
    /\ [](Importing =>
            \A id \in Range(imp.track.notes) :
                \E i \in 1..(imp.k - 1) :
                    /\ IsNoteOn(mid.tracks[imp.i][i])
                    /\ mid.tracks[imp.i][i].note = heap[id].note
                    /\ ExactSeconds(heap[id].start_time, AbsTick(imp.i, i)))
    /\ [][(Importing /\ Importing' /\ imp'.i = imp.i)
             => imp'.current_time >= imp.current_time]_vars

---------------------------------------------------------------------------
(* The structure of an exported file.                                      *)

Exported == lastOp.op = "export_midi_file" /\ output.text = "Exported"

\* The note messages of a file track, in order.
NoteMessages(msgs) ==
    SelectSeq(msgs, LAMBDA m : m.type \in {"note_on", "note_off"})

\* The number of messages of msgs of the given type, pitch, velocity, channel.
CountMessages(msgs, type, note, velocity, channel) ==
    Cardinality({k \in 1..Len(msgs) :
                    /\ msgs[k].type = type /\ msgs[k].note = note
                    /\ msgs[k].velocity = velocity /\ msgs[k].channel = channel})

\* The number of notes of ids of the given pitch, velocity, channel.
CountNotes(ids, h, note, velocity, channel) ==
    Cardinality({i \in 1..Len(ids) :
                    /\ h[ids[i]].note = note /\ h[ids[i]].velocity = velocity
                    /\ h[ids[i]].channel = channel})

\* C27: an exported file has one track for each track of the project, in the
\* project's order, tracks without notes included; a file track holds two
\* note messages for each note of its project track and no other: one
\* note-on with the note's pitch, velocity and channel, placed at start_time,
\* and one note-off with its pitch and channel and velocity 0, placed at
\* start_time + duration.  (Places are the event times the deltas are
\* computed from.)
C27_ExportStructure ==
    Exported =>
        /\ Len(mid.tracks) = Len(project.tracks)
        /\ \A t \in 1..Len(project.tracks) :
              LET ids == project.tracks[t].notes
                  msgs == NoteMessages(mid.tracks[t])
                  evs == ExportEvents(project.tracks[t], heap)
              IN  /\ mid.tracks[t][1] = MetaTrackName(project.tracks[t].name)
                  /\ Len(msgs) = 2 * Len(ids)
                  /\ Len(mid.tracks[t]) = Len(msgs) + 2
                  /\ \A m \in Range(msgs) :
                        /\ m.type = "note_on" =>
                              CountMessages(msgs, "note_on", m.note, m.velocity, m.channel)
                                  = CountNotes(ids, heap, m.note, m.velocity, m.channel)
                        /\ m.type = "note_off" =>
                              /\ m.velocity = 0
                              /\ CountMessages(msgs, "note_off", m.note, 0, m.channel)
                                    = Cardinality({i \in 1..Len(ids) :
                                          /\ heap[ids[i]].note = m.note
                                          /\ heap[ids[i]].channel = m.channel})
                  /\ \A id \in Range(ids) :
                        /\ CountMessages(msgs, "note_on", heap[id].note,
                                         heap[id].velocity, heap[id].channel) >= 1
                        /\ CountMessages(msgs, "note_off", heap[id].note, 0,
                                         heap[id].channel) >= 1
                        /\ Cardinality({k \in 1..Len(evs) :
                                           /\ evs[k].src = id
                                           /\ msgs[k].type = "note_on"
                                           /\ msgs[k].note = heap[id].note
                                           /\ evs[k].time = heap[id].start_time}) = 1
                        /\ Cardinality({k \in 1..Len(evs) :
                                           /\ evs[k].src = id
                                           /\ msgs[k].type = "note_off"
                                           /\ msgs[k].note = heap[id].note
                                           /\ evs[k].time = heap[id].start_time
                                                            + heap[id].duration}) = 1

\* C27's case: a project whose first track has no notes and whose second has
\* two has been exported.
C27_Witness ==
    /\ Exported
    /\ Len(project.tracks) = 2
    /\ project.tracks[1].notes = <<>>
    /\ Len(project.tracks[2].notes) = 2
    /\ Len(mid.tracks[1]) = 2 /\ Len(mid.tracks[2]) = 6

---------------------------------------------------------------------------
(* The current track of the CLI editor.                                    *)

\* C28: in the CLI editor, whenever the project has tracks, the current track
\* index is a position of the track list, so the commands that read the
\* current track never index past the list.
C28_TrackIndexInRange ==
    (~use_gui /\ project.tracks # <<>>) =>
        /\ 0 <= current_track_index
        /\ current_track_index < Len(project.tracks)
        /\ ~IndexError

---------------------------------------------------------------------------
(* The selection of the GUI editor.                                        *)

\* C29: in the GUI editor every note of selected_notes is a note of a track
\* of the current project, so quantize_selected and transpose_selected only
\* reach notes of the project; and delete_selected_notes leaves the selection
\* empty.
C29_SelectionInProject ==
    use_gui =>
        /\ Range(selected_notes) \subseteq Range(Flatten(project.tracks))
        /\ lastOp.op = "delete_selected_notes" => selected_notes = <<>>

---------------------------------------------------------------------------
(* The falling-note game: SynthesiaClone of src/main.py.  Game times are   *)
(* in hundredths of a second.                                              *)

\* The longest game time the model lets the clock reach.
MaxGameTime == 70

\* self.current_time += 0.02
GameTick == 2

\* The 0.5 s after the end of a note during which it can still be hit.
HitSlack == 50

\* MIDINote.__init__ of src/main.py
GameNote(note, velocity, start_time, duration) ==
    [note |-> note, velocity |-> velocity, start_time |-> start_time,
     duration |-> duration, active |-> FALSE, hit |-> FALSE]

\* SynthesiaClone.__init__ followed by the loading of a song
NewGame(song) ==
    [is_playing |-> FALSE, current_time |-> 0, notes |-> song,
     score |-> 0, notes_hit |-> 0, notes_missed |-> 0]

\* Songs: two notes of one pitch whose hit windows overlap; two notes of
\* different pitch starting together; one note.
GameSongs ==
    {<<GameNote(60, 80, 0, 4), GameNote(60, 80, 10, 4)>>,
     <<GameNote(60, 80, 0, 4), GameNote(62, 80, 0, 10)>>,
     <<GameNote(62, 80, 10, 4)>>}

\* Notes the keyboard can play: 'a', 'q' and 'w' of key_map.
GameKeys == {60, 62, 64}

GameFrame ==
    UNCHANGED <<editorVars, grid_size, use_gui, second2tick_rounds, codecVars, output>>

\* SynthesiaClone.toggle_play
toggle_play ==
    /\ game # None
    /\ game' = [game EXCEPT !.is_playing = ~@]
    /\ lastOp' = Op("toggle_play", 0)
    /\ GameFrame

\* SynthesiaClone.stop_song
stop_song ==
    /\ game # None
    /\ game' = [is_playing |-> FALSE, current_time |-> 0, score |-> 0,
                notes_hit |-> 0, notes_missed |-> 0,
                notes |-> [i \in 1..Len(game.notes) |->
                              [game.notes[i] EXCEPT !.hit = FALSE, !.active = FALSE]]]
    /\ lastOp' = Op("stop_song", 0)
    /\ GameFrame

\* n.start_time <= self.current_time <= n.start_time + n.duration + 0.5
InHitWindow(n, time) ==
    n.start_time <= time /\ time <= n.start_time + n.duration + HitSlack

\* A slip play_note could make: the test `not note.hit` left out.
HittableAgain(g, note_number) ==
    {i \in 1..Len(g.notes) :
        /\ InHitWindow(g.notes[i], g.current_time)
        /\ g.notes[i].note = note_number}

\* The positions of the notes play_note may hit: in the window, of the
\* pressed pitch, not hit yet.
Hittable(g, note_number) ==
    {i \in 1..Len(g.notes) :
        /\ InHitWindow(g.notes[i], g.current_time)
        /\ g.notes[i].note = note_number
        /\ ~g.notes[i].hit}

\* SynthesiaClone.play_note: the first such note is hit, and the loop breaks.
play_note(note_number) ==
    /\ game # None
    /\ LET found == Hittable(game, note_number)
       IN  IF found = {} THEN game' = game
           ELSE LET i == CHOOSE j \in found : \A o \in found : j <= o
                IN  game' = [game EXCEPT !.notes[i].hit = TRUE,
                                         !.score = @ + 100,
                                         !.notes_hit = @ + 1]
    /\ lastOp' = Op("play_note", note_number)
    /\ GameFrame

\* The notes update_game counts as missed at `time`.
Missed(g, time) ==
    {i \in 1..Len(g.notes) :
        /\ g.notes[i].start_time + g.notes[i].duration + HitSlack < time
        /\ ~g.notes[i].hit
        /\ ~g.notes[i].active}

\* SynthesiaClone.update_game, one run of the 20 ms timer.
update_game ==
    /\ game # None
    /\ game.is_playing => game.current_time < MaxGameTime
    /\ IF game.is_playing
       THEN LET time == game.current_time + GameTick
                missed == Missed(game, time)
            IN  game' = [game EXCEPT
                            !.current_time = time,
                            !.notes = [i \in 1..Len(game.notes) |->
                                          IF i \in missed
                                          THEN [game.notes[i] EXCEPT !.active = TRUE]
                                          ELSE game.notes[i]],
                            !.notes_missed = @ + Cardinality(missed)]
       ELSE game' = game
    /\ lastOp' = Op("update_game", 0)
    /\ GameFrame

GameInit ==
    /\ EditorInit /\ use_gui = FALSE /\ second2tick_rounds = TRUE
    /\ mid = None /\ pc = "idle" /\ imp = None /\ saved = None
    /\ \E song \in GameSongs : game = NewGame(song)

GameNext ==
    \/ update_game
    \/ \E note_number \in GameKeys : play_note(note_number)
    \/ toggle_play
    \/ stop_song

SpecGame == GameInit /\ [][GameNext]_vars

HitNotes == {i \in 1..Len(game.notes) : game.notes[i].hit}

MissedNotes == {i \in 1..Len(game.notes) : game.notes[i].active}

\* C30: in the game, under any interleaving of update_game, play_note,
\* toggle_play and stop_song: no note is both hit and missed; each note is
\* counted at most once, notes_hit and notes_missed being the numbers of the
\* notes marked hit and marked missed; notes_hit + notes_missed is at most the
\* number of notes; score is 100 * notes_hit; while is_playing is false no
\* timer run and no key press changes current_time or notes_missed; and
\* stop_song sets current_time, score, notes_hit and notes_missed to 0 and
\* clears the hit and active flag of every note.
C30_GameCounts ==
    /\ [](/\ HitNotes \cap MissedNotes = {}
          /\ game.notes_hit = Cardinality(HitNotes)
          /\ game.notes_missed = Cardinality(MissedNotes)
          /\ game.notes_hit + game.notes_missed <= Len(game.notes)
          /\ game.score = 100 * game.notes_hit)
    /\ [][/\ (~game.is_playing /\ lastOp'.op # "stop_song")
              => /\ game'.current_time = game.current_time
                 /\ game'.notes_missed = game.notes_missed
          /\ lastOp'.op = "stop_song"
              => /\ game'.current_time = 0 /\ game'.score = 0
                 /\ game'.notes_hit = 0 /\ game'.notes_missed = 0
                 /\ ~game'.is_playing
                 /\ Len(game'.notes) = Len(game.notes)
                 /\ \A i \in 1..Len(game'.notes) :
                       ~game'.notes[i].hit /\ ~game'.notes[i].active]_vars

\* C30's case: one note has been hit and another missed, the game is paused,
\* and the timer has run since.
C30_Witness ==
    /\ game # None
    /\ game.notes_hit = 1 /\ game.notes_missed = 1
    /\ ~game.is_playing
    /\ lastOp.op = "update_game"

============================================================================
